---- MODULE Spec2Model ----
(***************************************************************************)
(* FreeLog rust client: the buffered multi-destination dispatcher.         *)
(*                                                                         *)
(* State machine of FreeLogLayer (packages/rust-client/src/lib.rs): the    *)
(* event buffer, the ambient property overlay, the lazily opened file      *)
(* writers, FreeLogLayer::flush and the log_monitor loop that drives it.   *)
(*                                                                         *)
(* Threads: producers calling Layer::on_event, a caller mutating the       *)
(* overlay, the scheduler task (log_monitor) and a caller invoking         *)
(* flush() by hand.  A std::sync::Mutex guards the buffer, another the     *)
(* overlay, a tokio::sync::Mutex the file writers.                         *)
(***************************************************************************)
EXTENDS Integers, Sequences, FiniteSets, TLC

\* Number of events the producers emit in one behaviour.
MaxEvents == 2

----------------------------------------------------------------------------
(* Severity *)

Levels == {"Trace", "Debug", "Info", "Warn", "Error"}

level_int_flat(level) ==
    CASE level = "Trace" -> 0
      [] level = "Debug" -> 1
      [] level = "Info"  -> 2
      [] level = "Warn"  -> 2
      [] level = "Error" -> 4

\* fn level_int(level: Level) -> u8
level_int(level) ==
    CASE level = "Trace" -> 0
      [] level = "Debug" -> 1
      [] level = "Info"  -> 2
      [] level = "Warn"  -> 3
      [] level = "Error" -> 4

\* enum LogLevel of the models crate, the severity a record carries.
LogLevels == {"Trace", "Debug", "Info", "Warn", "Error"}

\* impl From<&LogLevel> for Level: the match, arm by arm.
FromLogLevel(value) ==
    CASE value = "Trace" -> "Trace"
      [] value = "Debug" -> "Debug"
      [] value = "Info"  -> "Info"
      [] value = "Warn"  -> "Warn"
      [] value = "Error" -> "Error"

\* The filter predicate of flush (remote and file destinations alike).
AtLeast(level, min) == level_int(level) >= level_int(min)

FilterMissesThreshold(batch, min) ==
    SelectSeq(batch, LAMBDA r : level_int(r.level) > level_int(min))

\* buffer.iter().filter(|r| level_int(r.level.into()) >= level_int(min))
Filter(batch, min) ==
    SelectSeq(batch, LAMBDA r : AtLeast(r.level, min))

----------------------------------------------------------------------------
(* Inputs *)

\* Severities of the emitted events and of the destinations' thresholds.
EventLevels == {"Debug", "Warn"}

\* The configurations explored: the minimum severity of every remote and of
\* every file destination, the global gate, and auto_flush.
\* user_agent.unwrap_or("free_log_rust_client") of both builders.
DefaultAgent == "free_log_rust_client"

\* The api_url of the k-th remote destination.
ApiUrl(k) == <<"https://logs.example", k>>

Config(a, f, g, af) ==
    [api_writers |-> a, file_writers |-> f, log_level |-> g, auto_flush |-> af,
     user_agent |-> DefaultAgent,
     api_user_agents |-> [k \in 1..Len(a) |-> DefaultAgent],
     api_urls |-> [k \in 1..Len(a) |-> ApiUrl(k)]]

\* LogsConfigBuilder::user_agent and ApiWriterConfigBuilder::user_agent.
WithAgents(cfg, agent, api_agents) ==
    [cfg EXCEPT !.user_agent = agent, !.api_user_agents = api_agents]

\* The requests: a remote destination with its own caller identifier, one
\* with the client's, and a file destination.
PostConfigs ==
    { WithAgents(Config(<<"Debug">>, << >>, "Trace", TRUE),
                 "app", <<"ingest">>),
      WithAgents(Config(<<"Debug">>, << >>, "Trace", TRUE),
                 "app", <<"app">>),
      Config(<< >>, <<"Warn">>, "Trace", TRUE) }

\* The whole client (overlay included): one destination.
Configs ==
    { Config(<<"Debug">>, << >>, "Trace", TRUE),
      Config(<< >>, <<"Warn">>, "Warn", TRUE),
      Config(<<"Warn">>, << >>, "Warn", FALSE) }

\* The dispatcher alone: two destinations, of either kind.
DispatchConfigs ==
    { Config(<<"Debug", "Warn">>, << >>, "Trace", TRUE),
      Config(<<"Warn">>, <<"Debug">>, "Trace", TRUE),
      Config(<< >>, <<"Warn", "Debug">>, "Trace", TRUE),
      Config(<<"Debug">>, <<"Warn">>, "Warn", FALSE) }

\* The scheduler loop: one destination of either kind.
MonitorConfigs ==
    { Config(<<"Debug">>, << >>, "Trace", TRUE),
      Config(<< >>, <<"Warn">>, "Trace", TRUE) }

\* The append under a severity gate: a remote destination flushed by the
\* scheduler and by hand, a file destination flushed by hand.
AppendConfigs ==
    { Config(<<"Debug">>, << >>, "Warn", TRUE),
      Config(<< >>, <<"Warn">>, "Warn", FALSE) }

\* Keys and values of the overlay (LogComponent::String values).
Keys == {"env"}
Vals == {"prod"}

\* HashMap<String, LogComponent>: a function from a set of keys.
Maps == UNION {[K -> Vals] : K \in SUBSET Keys}
EmptyMap == [k \in {} |-> "prod"]

\* Option<HashMap<..>>
NoProperties == [some |-> FALSE, map |-> EmptyMap]
SomeProperties(m) == [some |-> TRUE, map |-> m]

----------------------------------------------------------------------------
(* The wire format of the models crate: LogComponent and LogEntryRequest *)

\* Longest `values` of a record put on the wire.
MaxValues == 2

Finite == {"1.5"}
NonFinite == {"NaN", "inf"}

\* enum LogComponent, with payloads from small sets.
Components ==
    [variant : {"Integer"}, payload : -1..1]
      \cup [variant : {"UInteger"}, payload : 0..1]
      \cup [variant : {"Real"}, payload : Finite \cup NonFinite]
      \cup [variant : {"String"}, payload : {"a"}]
      \cup [variant : {"Boolean"}, payload : BOOLEAN]
      \cup [variant : {"Undefined", "Null"}]

\* impl Serialize for LogComponent, by serde_json: the JSON token written.
\* A number is written as its decimal text, so a non-negative isize and a
\* usize give the same token; serde_json writes a non-finite f64 as null.
SerializeComponent(c) ==
    CASE c.variant \in {"Integer", "UInteger"} ->
            [json |-> "integer", text |-> c.payload]
      [] c.variant = "Real" ->
            IF c.payload \in Finite
            THEN [json |-> "fraction", text |-> c.payload]
            ELSE [json |-> "null"]
      [] c.variant = "String" -> [json |-> "string", text |-> c.payload]
      [] c.variant = "Boolean" -> [json |-> "boolean", text |-> c.payload]
      [] OTHER -> [json |-> "null"]

\* impl Deserialize for LogComponent over the serde_json::Value parsed from
\* the token: is_u64 (an integer without sign), then is_i64, is_f64,
\* is_string, is_boolean, is_null; arrays and objects are Undefined.
DeserializeComponent(j) ==
    CASE j.json = "integer" /\ j.text >= 0 ->
            [variant |-> "UInteger", payload |-> j.text]
      [] j.json = "integer" /\ j.text < 0 ->
            [variant |-> "Integer", payload |-> j.text]
      [] j.json = "fraction" -> [variant |-> "Real", payload |-> j.text]
      [] j.json = "string" -> [variant |-> "String", payload |-> j.text]
      [] j.json = "boolean" -> [variant |-> "Boolean", payload |-> j.text]
      [] j.json = "null" -> [variant |-> "Null"]
      [] OTHER -> [variant |-> "Undefined"]

\* #[serde(rename_all = "SCREAMING_SNAKE_CASE")] enum LogLevel
LevelNames ==
    [Trace |-> "TRACE", Debug |-> "DEBUG", Info |-> "INFO", Warn |-> "WARN",
     Error |-> "ERROR"]

SerializeLevel(l) == LevelNames[l]
DeserializeLevel(name) == CHOOSE l \in DOMAIN LevelNames : LevelNames[l] = name

\* HashMap<String, LogComponent> to a JSON object and back.
SerializeMap(m) == [k \in DOMAIN m |-> SerializeComponent(m[k])]
DeserializeMap(o) == [k \in DOMAIN o |-> DeserializeComponent(o[k])]

\* #[derive(Serialize)] LogEntryRequest: `properties` is left out of the
\* object when it is None (skip_serializing_if).
SerializeEntry(e) ==
    LET fields ==
            [level |-> SerializeLevel(e.level),
             values |-> [k \in 1..Len(e.values) |->
                            SerializeComponent(e.values[k])],
             ts |-> [json |-> "integer", text |-> e.ts]]
    IN  IF e.properties.some
        THEN [k \in {"level", "values", "ts", "properties"} |->
                IF k = "properties" THEN SerializeMap(e.properties.map)
                ELSE fields[k]]
        ELSE fields

\* #[derive(Deserialize)] LogEntryRequest: a missing `properties` is None.
DeserializeEntry(o) ==
    [level |-> DeserializeLevel(o.level),
     values |-> [k \in 1..Len(o.values) |-> DeserializeComponent(o.values[k])],
     ts |-> o.ts.text,
     properties |->
        IF "properties" \in DOMAIN o
        THEN SomeProperties(DeserializeMap(o.properties))
        ELSE NoProperties]

\* serde_json::to_string(&entries) and serde_json::from_str::<Vec<_>>.
SerializeBatch(b) == [k \in 1..Len(b) |-> SerializeEntry(b[k])]
DeserializeBatch(w) == [k \in 1..Len(w) |-> DeserializeEntry(w[k])]

\* The records put on the wire.
ValueSeqs == UNION {[1..n -> Components] : n \in 0..MaxValues}
WireMaps == {EmptyMap} \cup {[k \in {"env"} |-> c] : c \in Components}
WireProperties == {NoProperties} \cup {SomeProperties(m) : m \in WireMaps}
WireEntries ==
    [level : {"Debug", "Error"}, values : ValueSeqs, ts : {0, 1},
     properties : WireProperties]
PlainEntry ==
    [level |-> "Info", values |-> << >>, ts |-> 1, properties |-> NoProperties]
WireBatches ==
    {<<e>> : e \in WireEntries}
      \cup {<<PlainEntry, e>> : e \in {x \in WireEntries : x.values = << >>}}

NoBatch == << >>

\* The buffer's mutex serialises on_event calls: one producer thread, which
\* interleaves with both flushers and the overlay's caller at every step.
Producers == {"p1"}
Flushers == {"sched", "manual"}
NoThread == "none"

----------------------------------------------------------------------------
(* State *)

VARIABLES
    config,        \* LogsConfig: api_writers, file_writers, log_level, auto_flush
    buffer,        \* FreeLogLayer.buffer: Vec<LogEntryRequest>
    buffer_lock,   \* holder of the buffer's std Mutex
    properties,    \* FreeLogLayer.properties: Option<HashMap>
    writers,       \* FreeLogLayer.file_writers: Option<Vec<(Level, BufWriter)>>
    writers_lock,  \* holder of the tokio Mutex around writers
    files,         \* content of each configured file: its lines, each the id
                   \* of the record serialised in it
    nextId,        \* identity of the next event
    ppc,           \* position of each producer inside on_event
    pev,           \* the event a producer is handling
    pc,            \* position of each flusher
    batch,         \* flush: the drained batch
    errs,          \* flush: errs
    idx,           \* flush: position of the destination loop
    result,        \* flush: the returned Result
    ops,           \* the destination operations of the flush in flight
    pushed,        \* history: ids of the records pushed to the buffer
    drainCount,    \* history: how many drains returned a record
    handed,        \* history: per destination, how often a record was handed to it
    opened,        \* history: open() calls per configured file
    sent,          \* wire: the batch the client serialises
    wire,          \* wire: the JSON array in flight
    received,      \* wire: the batch the remote end parsed
    probe,         \* severity: three LogLevel values to compare
    verdict,       \* severity: what the conversions and comparisons gave
    ahead,         \* history: scheduler flushes started minus ticks fired
    everSet        \* history: with_properties or set_property was called

\* What no action of the layer changes: its configuration, and the wire.
cfgVars == <<config, sent, wire, received, probe, verdict>>
bufVars == <<buffer, buffer_lock>>
prodVars == <<nextId, ppc, pev, pushed>>
fileVars == <<writers, writers_lock, files, opened>>
flushVars == <<pc, batch, errs, idx, result, ops>>
histVars == <<drainCount, handed>>
monVars == <<ahead>>
ovVars == <<everSet>>

vars == <<config, buffer, buffer_lock, properties, writers, writers_lock,
          files, nextId, ppc, pev, pc, batch, errs, idx, result, ops,
          pushed, drainCount, handed, opened, sent, wire, received, probe,
          verdict, ahead, everSet>>

Ids == 1..MaxEvents

ApiIdx == 1..Len(config.api_writers)
FileIdx == 1..Len(config.file_writers)

ApiDest(i) == <<"api", i>>
FileDest(j) == <<"file", j>>
Dests == {ApiDest(i) : i \in ApiIdx} \cup {FileDest(j) : j \in FileIdx}

NoEvent == [id |-> 0, level |-> "Trace"]
OkResult == [kind |-> "Ok"]
NoResult == [kind |-> "Pending"]

SpawnAlways(cfg) == "idle"

\* if auto_flush { api::RT.spawn(log_monitor(..)) }: the scheduler task is at
\* the head of its loop, or does not exist.
Spawn(cfg) == IF cfg.auto_flush THEN "idle" ELSE "off"

\* FreeLogLayer::new after LogsConfigBuilder::build, and init()'s spawn of
\* log_monitor when auto_flush is set.
LayerNew(configs) ==
    /\ config \in configs
    /\ buffer = << >>
    /\ buffer_lock = NoThread
    /\ properties = NoProperties
    /\ writers = [some |-> FALSE, v |-> << >>]
    /\ writers_lock = NoThread
    /\ files = [j \in FileIdx |-> << >>]
    /\ nextId = 1
    /\ ppc = [p \in Producers |-> "idle"]
    /\ pev = [p \in Producers |-> NoEvent]
    /\ pc = [f \in Flushers |-> IF f = "sched" THEN Spawn(config) ELSE "idle"]
    /\ batch = [f \in Flushers |-> << >>]
    /\ errs = [f \in Flushers |-> << >>]
    /\ idx = [f \in Flushers |-> 0]
    /\ result = [f \in Flushers |-> NoResult]
    /\ ops = [f \in Flushers |-> << >>]
    /\ pushed = {}
    /\ drainCount = [i \in Ids |-> 0]
    /\ handed = [d \in Dests |-> [i \in Ids |-> 0]]
    /\ opened = [j \in FileIdx |-> 0]
    /\ ahead = 0
    /\ everSet = FALSE

\* Nothing is on the wire.
WireIdle == sent = NoBatch /\ wire = NoBatch /\ received = NoBatch

NoProbe == << >>
NoVerdict == [done |-> FALSE]

\* No severity comparison is under observation.
LevelIdle == probe = NoProbe /\ verdict = NoVerdict

\* The layer after init(), its requests seen through their outcome only.
InitWith(configs) == LayerNew(configs) /\ WireIdle /\ LevelIdle

Init == InitWith(Configs)

----------------------------------------------------------------------------
(* Ambient property overlay *)

\* with_properties: Option::replace(properties)
with_properties(m) ==
    /\ properties' = SomeProperties(m)
    /\ everSet' = TRUE
    /\ UNCHANGED <<cfgVars, monVars, bufVars, prodVars, fileVars,
                   flushVars, histVars>>

\* get_or_insert(HashMap::new()).insert(name, value)
Insert(overlay, name, value) ==
    LET m == overlay.map
    IN  SomeProperties([k \in DOMAIN m \cup {name} |->
                            IF k = name THEN value ELSE m[k]])

\* get_or_insert(HashMap::new()).remove(name)
Remove(overlay, name) ==
    LET m == overlay.map
    IN  SomeProperties([k \in DOMAIN m \ {name} |-> m[k]])

set_property(name, value) ==
    /\ properties' = Insert(properties, name, value)
    /\ everSet' = TRUE
    /\ UNCHANGED <<cfgVars, monVars, bufVars, prodVars, fileVars,
                   flushVars, histVars>>

remove_property(name) ==
    /\ properties' = Remove(properties, name)
    /\ UNCHANGED <<cfgVars, ovVars, monVars, bufVars, prodVars, fileVars,
                   flushVars, histVars>>

----------------------------------------------------------------------------
(* Layer::on_event *)

NewRecordWithoutProperties(id, level, overlay) ==
    [id |-> id, level |-> level, properties |-> NoProperties]

\* LogEntryRequest { level, ts, values, .., properties: overlay.cloned() }
NewRecord(id, level, overlay) ==
    [id |-> id, level |-> level, properties |-> overlay]

GateOpen(level, gate) == FALSE

\* if level_int(level.into()) < level_int(self.config.log_level) { return; }
BelowGate(level, gate) == level_int(level) < level_int(gate)

\* The severity gate, then self.buffer.lock(): the receiver of push is
\* evaluated (the lock taken) before the record, its argument, is built.
on_event_begin(p, level) ==
    /\ ppc[p] = "idle"
    /\ nextId <= MaxEvents
    /\ nextId' = nextId + 1
    /\ IF BelowGate(level, config.log_level)
       THEN UNCHANGED <<ppc, pev, buffer_lock>>
       ELSE /\ buffer_lock = NoThread
            /\ buffer_lock' = p
            /\ ppc' = [ppc EXCEPT ![p] = "locked"]
            /\ pev' = [pev EXCEPT ![p] = [id |-> nextId, level |-> level]]
    /\ UNCHANGED <<cfgVars, ovVars, monVars, buffer, properties, pushed,
                   fileVars, flushVars, histVars>>

PushUpToCapacity(buf, rec) == IF Len(buf) >= 1 THEN buf ELSE Append(buf, rec)

\* Vec::push: the record becomes the last element; a Vec grows as needed.
Push(buf, rec) == Append(buf, rec)

PushGuardKept(p) == p

\* The holder of the buffer lock after the push statement: the guard is a
\* temporary of that statement.
PushGuardDropped(p) == NoThread

\* The record is built from a clone of the overlay (taken under the overlay's
\* own lock while the buffer lock is held), pushed, and the lock released.
on_event_push(p) ==
    /\ ppc[p] = "locked"
    /\ buffer' = Push(buffer, NewRecord(pev[p].id, pev[p].level, properties))
    /\ pushed' = pushed \cup {pev[p].id}
    /\ buffer_lock' = PushGuardDropped(p)
    /\ ppc' = [ppc EXCEPT ![p] = "idle"]
    /\ pev' = [pev EXCEPT ![p] = NoEvent]
    /\ UNCHANGED <<cfgVars, ovVars, monVars, properties, nextId, fileVars,
                   flushVars, histVars>>

----------------------------------------------------------------------------
(* FreeLogLayer::flush *)

IoError(dest) == [kind |-> "IO", dest |-> dest]
ReqwestError(dest) == [kind |-> "Reqwest", dest |-> dest]
Unsuccessful(dest) == [kind |-> "Unsuccessful", dest |-> dest]
Err(e) == [kind |-> "Err", err |-> e]

\* What the remote end can make of one POST: the request fails in transport,
\* the status is no 2xx, the status is a 2xx other than 200 ("created": 201
\* with the body {"success": true}), the body is no JSON, "success" is false,
\* "success" is absent or no boolean, or all is well (200 and
\* {"success": true}).  serde_json::to_string(..)? has no outcome of its own:
\* a LogEntryRequest (string keys, scalar components) always serialises.
ApiOutcomes ==
    {"ok", "transport", "status", "created", "parse", "false", "absent"}

\* The remote end answered a 2xx status and a JSON object whose "success" is
\* the boolean true.
Accepted(outcome) == outcome \in {"ok", "created"}

\* The error pushed to errs for an outcome that lets the loop continue.
ApiError(outcome, dest) ==
    IF outcome \in {"transport", "parse"} THEN ReqwestError(dest)
    ELSE Unsuccessful(dest)

\* match errs.len() { 0 => Ok(()), 1 => Err(first), _ => Err(Multi(errs)) }
Aggregate(es) ==
    CASE Len(es) = 0 -> OkResult
      [] Len(es) = 1 -> Err(es[1])
      [] OTHER -> Err([kind |-> "Multi", errs |-> es])

Indices(n) == [k \in 1..n |-> k]
RecIds(s) == [k \in 1..Len(s) |-> s[k].id]

\* The history of deliveries after `entries` went to a destination.
Hand(h, entries) ==
    [i \in Ids |-> h[i] + Cardinality({k \in 1..Len(entries) : entries[k].id = i})]

\* flush() is entered: let mut errs = vec![].
FlushStart(f) ==
    /\ pc[f] = "idle"
    /\ pc' = [pc EXCEPT ![f] =
                IF config.file_writers # << >> THEN "await_init" ELSE "drain"]
    /\ errs' = [errs EXCEPT ![f] = << >>]
    /\ ahead' = IF f = "sched" THEN ahead + 1 ELSE ahead
    /\ UNCHANGED <<cfgVars, ovVars, bufVars, properties, prodVars, fileVars,
                   batch, idx, result, ops, histVars>>

\* self.file_writers.lock().await of the initialisation block.
AcquireInit(f) ==
    /\ pc[f] = "await_init"
    /\ writers_lock = NoThread
    /\ writers_lock' = f
    /\ pc' = [pc EXCEPT ![f] = "init"]
    /\ UNCHANGED <<cfgVars, ovVars, monVars, bufVars, properties, prodVars,
                   writers, files, opened, batch, errs, idx, result, ops,
                   histVars>>

AlwaysNeedsInit(w) == TRUE

InitGuardKept(f) == f

\* The holder of the file-writers lock after the initialisation block: the
\* guard `writers` goes out of scope at the end of the block.
InitGuardDropped(f) == NoThread

\* writers.is_none()
NeedsInit(w) == ~w.some

\* The initialisation block under the lock: every configured file is opened
\* (create, append), the handles that opened are kept, the failures pushed to
\* errs; the guard is dropped at the end of the block.
InitWriters(f) ==
    /\ pc[f] = "init"
    /\ IF NeedsInit(writers)
       THEN \E okset \in SUBSET FileIdx :
              LET n == Len(config.file_writers)
                  okidx == SelectSeq(Indices(n), LAMBDA j : j \in okset)
                  badidx == SelectSeq(Indices(n), LAMBDA j : j \notin okset)
              IN  /\ writers' =
                        [some |-> TRUE,
                         v |-> [k \in 1..Len(okidx) |->
                                  [cfg |-> okidx[k],
                                   level |-> config.file_writers[okidx[k]]]]]
                  /\ errs' = [errs EXCEPT ![f] =
                        @ \o [k \in 1..Len(badidx) |->
                                  IoError(FileDest(badidx[k]))]]
                  /\ opened' = [j \in FileIdx |-> opened[j] + 1]
                  /\ ops' = [ops EXCEPT ![f] =
                        @ \o [j \in 1..n |->
                                  [op |-> "open", dest |-> FileDest(j),
                                   ok |-> j \in okset]]]
       ELSE UNCHANGED <<writers, errs, opened, ops>>
    /\ writers_lock' = InitGuardDropped(f)
    /\ pc' = [pc EXCEPT ![f] = "drain"]
    /\ UNCHANGED <<cfgVars, ovVars, monVars, bufVars, properties, prodVars,
                   files, batch, idx, result, histVars>>

DrainSkipsFirst(buf) == IF buf = << >> THEN << >> ELSE Tail(buf)

\* What drain(..).collect() returns: every record, in insertion order.
Drained(buf) == buf

DrainKeepsBuffer(buf) == buf

\* What drain(..) leaves in the buffer.
AfterDrain(buf) == << >>

DrainGuardKept(f) == f

\* The holder of the buffer lock after the drain statement: the guard is a
\* temporary of that statement and is dropped at its end.
DrainGuardDropped(f) == NoThread

\* The position after the remote destination idx: the next one, or the
\* file phase.
AfterApi(i) ==
    IF i < Len(config.api_writers) THEN "api" ELSE "await_files"

\* self.buffer.lock().drain(..).collect(), and the early return on an empty
\* batch.
Drain(f) ==
    /\ pc[f] = "drain"
    /\ buffer_lock = NoThread
    /\ batch' = [batch EXCEPT ![f] = Drained(buffer)]
    /\ buffer' = AfterDrain(buffer)
    /\ buffer_lock' = DrainGuardDropped(f)
    /\ drainCount' = Hand(drainCount, Drained(buffer))
    /\ IF Drained(buffer) = << >>
       THEN /\ result' = [result EXCEPT ![f] = OkResult]
            /\ pc' = [pc EXCEPT ![f] = "done"]
            /\ UNCHANGED idx
       ELSE /\ pc' = [pc EXCEPT ![f] = AfterApi(0)]
            /\ idx' = [idx EXCEPT ![f] = 1]
            /\ UNCHANGED result
    /\ UNCHANGED <<cfgVars, ovVars, monVars, properties, prodVars, fileVars,
                   errs, ops, handed>>

\* One iteration of the loop over config.api_writers.
ApiWriter(f) ==
    /\ pc[f] = "api"
    /\ LET i == idx[f]
           entries == Filter(batch[f], config.api_writers[i])
       IN  IF entries = << >>
           THEN /\ pc' = [pc EXCEPT ![f] = AfterApi(i)]
                /\ idx' = [idx EXCEPT ![f] = IF AfterApi(i) = "api" THEN i + 1 ELSE 0]
                /\ UNCHANGED <<errs, result, ops, handed>>
           ELSE \E outcome \in ApiOutcomes :
                /\ ops' = [ops EXCEPT ![f] =
                      Append(@, [op |-> "post", dest |-> ApiDest(i),
                                 url |-> <<config.api_urls[i], "/logs">>,
                                 user_agent |-> config.user_agent,
                                 body |-> entries, ok |-> outcome = "ok",
                                 accepted |-> Accepted(outcome)])]
                /\ handed' = [handed EXCEPT ![ApiDest(i)] = Hand(@, entries)]
                /\ IF outcome = "absent"
                   THEN \* .ok_or(FlushError::Unsuccessful(..))?
                        /\ result' = [result EXCEPT ![f] =
                                         Err(Unsuccessful(ApiDest(i)))]
                        /\ pc' = [pc EXCEPT ![f] = "done"]
                        /\ UNCHANGED <<errs, idx>>
                   ELSE /\ errs' = [errs EXCEPT ![f] =
                              IF outcome = "ok" THEN @
                              ELSE Append(@, ApiError(outcome, ApiDest(i)))]
                        /\ pc' = [pc EXCEPT ![f] = AfterApi(i)]
                        /\ idx' = [idx EXCEPT ![f] =
                              IF AfterApi(i) = "api" THEN i + 1 ELSE 0]
                        /\ UNCHANGED result
    /\ UNCHANGED <<cfgVars, ovVars, monVars, bufVars, properties, prodVars,
                   fileVars, batch, drainCount>>

FilesGuardNotTaken(f) == NoThread

\* The holder of the file-writers lock in the file phase: the guard of
\* self.file_writers.lock().await lives until the end of the if let block.
FilesGuardHeld(f) == f

\* self.file_writers.lock().await of the file phase.  With no writer
\* (None, or none opened) the guard is dropped at once and errs aggregated.
AcquireFiles(f) ==
    /\ pc[f] = "await_files"
    /\ writers_lock = NoThread
    /\ IF writers.some /\ writers.v # << >>
       THEN /\ writers_lock' = FilesGuardHeld(f)
            /\ pc' = [pc EXCEPT ![f] = "files"]
            /\ idx' = [idx EXCEPT ![f] = 1]
            /\ UNCHANGED result
       ELSE /\ result' = [result EXCEPT ![f] = Aggregate(errs[f])]
            /\ pc' = [pc EXCEPT ![f] = "done"]
            /\ UNCHANGED <<writers_lock, idx>>
    /\ UNCHANGED <<cfgVars, ovVars, monVars, bufVars, properties, prodVars,
                   writers, files, opened, batch, errs, ops, histVars>>

OnlyFirstWriteFailure(badidx, dest) ==
    IF badidx = << >> THEN << >> ELSE <<IoError(dest)>>

\* if let Err(err) = writer.write_all(..).await { errs.push(err.into());
\* continue; }: one entry for every record whose write failed.
WriteFailures(badidx, dest) == [k \in 1..Len(badidx) |-> IoError(dest)]

\* One iteration of the loop over the writers: every filtered record is
\* written as a line (a failed write is pushed to errs and the loop goes
\* on), then the writer is flushed.  After the last writer the guard is
\* dropped and errs aggregated.
FileWriter(f) ==
    /\ pc[f] = "files"
    /\ LET w == writers.v[idx[f]]
           dest == FileDest(w.cfg)
           entries == Filter(batch[f], w.level)
           n == Len(entries)
       IN  \E wrote \in [1..n -> BOOLEAN], flushed \in BOOLEAN :
           LET okidx == SelectSeq(Indices(n), LAMBDA k : wrote[k])
               badidx == SelectSeq(Indices(n), LAMBDA k : ~wrote[k])
               es == errs[f] \o WriteFailures(badidx, dest)
                        \o (IF flushed THEN << >> ELSE <<IoError(dest)>>)
           IN  /\ files' = [files EXCEPT ![w.cfg] =
                     @ \o [k \in 1..Len(okidx) |-> entries[okidx[k]].id]]
               /\ errs' = [errs EXCEPT ![f] = es]
               /\ ops' = [ops EXCEPT ![f] =
                     @ \o [k \in 1..n |->
                             [op |-> "write", dest |-> dest,
                              rec |-> entries[k], ok |-> wrote[k]]]
                       \o <<[op |-> "flush", dest |-> dest, ok |-> flushed]>>]
               /\ handed' = [handed EXCEPT ![dest] = Hand(@, entries)]
               /\ IF idx[f] < Len(writers.v)
                  THEN /\ idx' = [idx EXCEPT ![f] = @ + 1]
                       /\ UNCHANGED <<pc, result, writers_lock>>
                  ELSE /\ writers_lock' = NoThread
                       /\ result' = [result EXCEPT ![f] = Aggregate(es)]
                       /\ pc' = [pc EXCEPT ![f] = "done"]
                       /\ idx' = [idx EXCEPT ![f] = 0]
    /\ UNCHANGED <<cfgVars, ovVars, monVars, bufVars, properties, prodVars,
                   writers, opened, batch, drainCount>>

----------------------------------------------------------------------------
(* log_monitor and the manual caller *)

MonitorStopsOnError(res) == IF res.kind = "Err" THEN "stopped" ELSE "tick"

\* if let Err(err) = layer.flush().await { eprintln!(..) }
MonitorAfterFlush(res) == IF res.kind = "Err" THEN "log" ELSE "tick"

\* flush() returns to its caller: the scheduler loop or the manual caller.
FlushReturn(f) ==
    /\ pc[f] = "done"
    /\ pc' = [pc EXCEPT ![f] =
                IF f = "sched" THEN MonitorAfterFlush(result[f]) ELSE "idle"]
    /\ batch' = [batch EXCEPT ![f] = << >>]
    /\ errs' = [errs EXCEPT ![f] = << >>]
    /\ idx' = [idx EXCEPT ![f] = 0]
    /\ result' = [result EXCEPT ![f] = NoResult]
    /\ ops' = [ops EXCEPT ![f] = << >>]
    /\ UNCHANGED <<cfgVars, ovVars, monVars, bufVars, properties, prodVars,
                   fileVars, histVars>>

\* eprintln!("Failed to flush: {err:?}")
MonitorLog ==
    /\ pc["sched"] = "log"
    /\ pc' = [pc EXCEPT !["sched"] = "tick"]
    /\ UNCHANGED <<cfgVars, ovVars, monVars, bufVars, properties, prodVars,
                   fileVars, batch, errs, idx, result, ops, histVars>>

\* interval.tick().await, then the next turn of the loop.
MonitorTick ==
    /\ pc["sched"] = "tick"
    /\ pc' = [pc EXCEPT !["sched"] = "idle"]
    /\ ahead' = ahead - 1
    /\ UNCHANGED <<cfgVars, ovVars, bufVars, properties, prodVars, fileVars,
                   batch, errs, idx, result, ops, histVars>>

----------------------------------------------------------------------------

FlushStep(f) ==
    \/ AcquireInit(f)
    \/ InitWriters(f)
    \/ Drain(f)
    \/ ApiWriter(f)
    \/ AcquireFiles(f)
    \/ FileWriter(f)
    \/ FlushReturn(f)

\* The steps of the scheduler task.
MonitorNext ==
    \/ FlushStart("sched")
    \/ FlushStep("sched")
    \/ MonitorLog
    \/ MonitorTick

\* Producers, the scheduler and a manual flush() caller.
DispatchNext ==
    \/ \E p \in Producers, l \in EventLevels : on_event_begin(p, l)
    \/ \E p \in Producers : on_event_push(p)
    \/ FlushStart("manual")
    \/ FlushStep("manual")
    \/ MonitorNext

\* The same with a caller that mutates the overlay.
Next ==
    \/ \E m \in Maps : with_properties(m)
    \/ \E k \in Keys, v \in Vals : set_property(k, v)
    \/ \E k \in Keys : remove_property(k)
    \/ DispatchNext

Spec == Init /\ [][Next]_vars

\* The same, with a producer thread that is scheduled while it can run: once
\* it holds the buffer lock, its push is not delayed for ever.
AppendSpec ==
    /\ InitWith(AppendConfigs)
    /\ [][Next]_vars
    /\ WF_vars(\E p \in Producers : on_event_push(p))

\* The dispatcher with caller identifiers of its own.
PostSpec == InitWith(PostConfigs) /\ [][DispatchNext]_vars

\* The dispatcher when the application leaves the overlay alone.
DispatchSpec == InitWith(DispatchConfigs) /\ [][DispatchNext]_vars

\* The scheduler task is polled by the runtime whenever it can take a step.
MonitorSpec ==
    InitWith(MonitorConfigs) /\ [][DispatchNext]_vars /\ WF_vars(MonitorNext)

\* The scheduler task is polled whenever it can take a step and is not
\* overtaken for ever at the file-writers lock (tokio's Mutex is granted in
\* the order of the requests); whatever holds a lock it waits for lets go:
\* a flush() called by hand runs to its return, a producer that holds the
\* buffer lock completes its push.
DrainSpec ==
    /\ InitWith(MonitorConfigs)
    /\ [][DispatchNext]_vars
    /\ SF_vars(MonitorNext)
    /\ SF_vars(FlushStep("manual"))
    /\ WF_vars(\E p \in Producers : on_event_push(p))

----------------------------------------------------------------------------
(* A batch on its way to the remote end *)

WireConfigs == {Config(<<"Debug">>, << >>, "Trace", FALSE)}

WireInit ==
    /\ LayerNew(WireConfigs)
    /\ sent \in WireBatches
    /\ wire = NoBatch
    /\ received = NoBatch
    /\ LevelIdle

layerVars ==
    <<config, bufVars, properties, prodVars, fileVars, flushVars, histVars,
      monVars, ovVars>>

\* let body = serde_json::to_string(&entries)?
ToWire ==
    /\ wire = NoBatch
    /\ wire' = SerializeBatch(sent)
    /\ UNCHANGED <<layerVars, sent, received, probe, verdict>>

\* The remote end parses the body as Vec<LogEntryRequest>.
FromWire ==
    /\ wire # NoBatch
    /\ received = NoBatch
    /\ received' = DeserializeBatch(wire)
    /\ UNCHANGED <<layerVars, sent, wire, probe, verdict>>

WireNext == ToWire \/ FromWire

WireSpec == WireInit /\ [][WireNext]_vars

----------------------------------------------------------------------------
(* The severity comparison of the filters, on three record severities *)

LevelInit ==
    /\ LayerNew(WireConfigs)
    /\ WireIdle
    /\ probe \in [1..3 -> LogLevels]
    /\ verdict = NoVerdict

\* r.level.into(), level_int(..) and level_int(a) >= level_int(b) for every
\* pair of the three severities.
Compare ==
    /\ ~verdict.done
    /\ verdict' =
          [done |-> TRUE,
           level |-> [k \in 1..3 |-> FromLogLevel(probe[k])],
           int |-> [k \in 1..3 |-> level_int(FromLogLevel(probe[k]))],
           ge |-> [i \in 1..3 |-> [j \in 1..3 |->
                     AtLeast(FromLogLevel(probe[i]), FromLogLevel(probe[j]))]]]
    /\ UNCHANGED <<layerVars, sent, wire, received, probe>>

LevelNext == Compare

LevelSpec == LevelInit /\ [][LevelNext]_vars

----------------------------------------------------------------------------
(* Observations on a flush in flight *)

IsApi(d) == d[1] = "api"

\* The minimum severity configured for a destination.
MinLevel(d) ==
    IF IsApi(d) THEN config.api_writers[d[2]] ELSE config.file_writers[d[2]]

\* The operations of the given kinds that flush f performed on d.
OpsOn(f, d, kinds) ==
    SelectSeq(ops[f], LAMBDA o : o.dest = d /\ o.op \in kinds)

\* The records flush f handed to d, in the order it handed them.
RECURSIVE GivenIn(_, _)
GivenIn(os, d) ==
    IF os = << >> THEN << >>
    ELSE LET o == Head(os)
             rest == GivenIn(Tail(os), d)
         IN  IF o.dest # d THEN rest
             ELSE IF o.op = "post" THEN o.body \o rest
             ELSE IF o.op = "write" THEN <<o.rec>> \o rest
             ELSE rest

\* One POST, or one batch write (closed by the flush of the writer).
Attempts(f, d) ==
    IF IsApi(d) THEN Len(OpsOn(f, d, {"post"}))
    ELSE Len(OpsOn(f, d, {"flush"}))

\* The file destination has an open handle among the writers.
OpenHandle(d) ==
    /\ writers.some
    /\ \E k \in 1..Len(writers.v) : writers.v[k].cfg = d[2]

\* s is the subsequence of b of the records whose severity is at least min,
\* in the order of b.
IsFilterOf(s, b, min) ==
    LET keep == {k \in 1..Len(b) : level_int(b[k].level) >= level_int(min)}
        nth(n) == CHOOSE k \in keep : Cardinality({m \in keep : m <= k}) = n
    IN  /\ Len(s) = Cardinality(keep)
        /\ \A n \in 1..Len(s) : s[n] = b[nth(n)]

\* Destinations in evaluation order: the remote ones, then the files.
DestOrder ==
    [k \in 1..(Len(config.api_writers) + Len(config.file_writers)) |->
        IF k <= Len(config.api_writers) THEN ApiDest(k)
        ELSE FileDest(k - Len(config.api_writers))]

\* The destinations on which an operation of flush f failed.
FailedDests(f) ==
    SelectSeq(DestOrder,
              LAMBDA d : \E n \in 1..Len(ops[f]) :
                            ops[f][n].dest = d /\ ~ops[f][n].ok)

Occurrences(s, id) == Cardinality({k \in 1..Len(s) : s[k].id = id})

IsPrefix(s, t) == Len(s) <= Len(t) /\ SubSeq(t, 1, Len(s)) = s

\* The records that exist: in the buffer or in a drained batch.
LiveRecords ==
    {buffer[k] : k \in 1..Len(buffer)}
        \cup UNION {{batch[f][k] : k \in 1..Len(batch[f])} : f \in Flushers}

----------------------------------------------------------------------------
(* Claims *)

\* C1: when a flush with a non-empty batch returns, every remote destination
\* and every file destination with an open handle whose filtered set is not
\* empty was attempted exactly once, whatever happened on the destinations
\* before it.
C1_EveryDestinationAttemptedOnce ==
    \A f \in Flushers :
        (pc[f] = "done" /\ batch[f] # << >>) =>
            \A d \in Dests :
                ( /\ IsApi(d) \/ OpenHandle(d)
                  /\ ~IsFilterOf(<< >>, batch[f], MinLevel(d)) )
                    => Attempts(f, d) = 1

\* C2: the result of a flush reflects exactly the destinations that failed
\* in it: none gives Ok, one gives its error unwrapped, k >= 2 give Multi with
\* k entries in evaluation order.
C2_ResultReflectsFailures ==
    \A f \in Flushers :
        pc[f] = "done" =>
            LET fd == FailedDests(f)
                k == Len(fd)
                r == result[f]
            IN  /\ k = 0 => r = OkResult
                /\ k = 1 => /\ r.kind = "Err"
                            /\ r.err.kind # "Multi"
                            /\ r.err.dest = fd[1]
                /\ k >= 2 => /\ r.kind = "Err"
                             /\ r.err.kind = "Multi"
                             /\ Len(r.err.errs) = k
                             /\ \A n \in 1..k : r.err.errs[n].dest = fd[n]

\* C3: every record pushed to the buffer is in exactly one place, the buffer
\* or the batch of exactly one drain; a record that was not pushed is in none.
C3_DrainAtomicity ==
    \A id \in Ids :
        /\ Occurrences(buffer, id) + drainCount[id] =
              (IF id \in pushed THEN 1 ELSE 0)
        /\ Occurrences(batch["sched"], id) + Occurrences(batch["manual"], id)
              <= drainCount[id]

\* C3 witness: two overlapping flushes, each holding a non-empty batch.
C3_Witness ==
    /\ batch["sched"] # << >>
    /\ batch["manual"] # << >>

\* C4: what a flush hands to a destination it attempts is exactly the
\* subsequence of its batch at or above the destination's minimum severity,
\* in order and unmodified; it hands nothing to a destination it skips.
C4_PerDestinationFiltering ==
    \A f \in Flushers : \A d \in Dests :
        LET given == GivenIn(ops[f], d)
        IN  IF OpsOn(f, d, {"post", "flush"}) # << >>
            THEN IsFilterOf(given, batch[f], MinLevel(d))
            ELSE given = << >>

\* C4 witness: a batch of two records of which a destination got just one.
C4_Witness ==
    \E f \in Flushers : \E d \in Dests :
        /\ Len(batch[f]) = 2
        /\ Len(GivenIn(ops[f], d)) = 1

\* C5: a flush that drains nothing performs no destination operation, not
\* even a file open, and returns Ok.
C5_EmptyDrainNoOp ==
    \A f \in Flushers :
        (pc[f] = "done" /\ batch[f] = << >>) =>
            (ops[f] = << >> /\ result[f] = OkResult)

\* C6: a destination whose filtered set is empty for the drained batch sees
\* no POST, no write and no flush of its writer in that flush.
C6_EmptyFilterSkipped ==
    \A f \in Flushers : \A d \in Dests :
        (batch[f] # << >> /\ IsFilterOf(<< >>, batch[f], MinLevel(d))) =>
            OpsOn(f, d, {"post", "write", "flush"}) = << >>

\* C7: a record keeps the properties it was created with whatever happens to
\* the overlay afterwards, and a record that enters the buffer carries the
\* overlay of the moment it was built.
C7_PropertySnapshot ==
    [][ \A r2 \in LiveRecords' :
            IF \E r \in LiveRecords : r.id = r2.id
            THEN r2 \in LiveRecords
            ELSE r2.properties = properties ]_vars

\* C7 witness: env=prod was set, A emitted, env removed, B emitted.
C7_Witness ==
    /\ Len(buffer) = 2
    /\ buffer[1].properties = SomeProperties([k \in {"env"} |-> "prod"])
    /\ buffer[2].properties = SomeProperties(EmptyMap)
    /\ properties = SomeProperties(EmptyMap)

\* C8: every configured file is opened at most once, also under overlapping
\* flushes, and a flush only ever appends to it.
C8_OpenOnceAppendOnly ==
    /\ [](\A j \in FileIdx : opened[j] <= 1)
    /\ [][\A j \in FileIdx : IsPrefix(files[j], files'[j])]_vars

\* C8 witness: a flush has just appended the second line of a file opened
\* once, the first line being there from an earlier flush.
C8_Witness ==
    \E j \in FileIdx : \E f \in Flushers :
        /\ opened[j] = 1
        /\ Len(files[j]) = 2
        /\ pc[f] = "done"
        /\ Len(SelectSeq(OpsOn(f, FileDest(j), {"write"}), LAMBDA o : o.ok)) = 1

\* C9: a drained record is never back in the buffer, and no record is handed
\* to a destination more than once over all flushes.
C9_NoRequeueNoRetry ==
    /\ \A id \in Ids : drainCount[id] > 0 => Occurrences(buffer, id) = 0
    /\ \A d \in Dests : \A id \in Ids : handed[d][id] <= 1

\* C9 witness: a flush failed and the buffer holds a later record only.
C9_Witness ==
    \E f \in Flushers :
        /\ pc[f] = "done"
        /\ result[f].kind = "Err"
        /\ batch[f] # << >>
        /\ buffer # << >>

SchedFlushFailed == pc["sched"] = "done" /\ result["sched"].kind = "Err"
SchedFlushStarted == pc["sched"] \in {"await_init", "drain"}

\* C10: after a scheduler flush that returned an error the loop goes on: it
\* starts another flush.
C10_SchedulerResilience == [](SchedFlushFailed => <>SchedFlushStarted)

\* C10 witness: the scheduler is logging a failed flush.
C10_Witness == pc["sched"] = "log"

\* The result of a flush names destination d among its failures.
ResultReports(r, d) ==
    /\ r.kind = "Err"
    /\ IF r.err.kind = "Multi"
       THEN \E n \in 1..Len(r.err.errs) : r.err.errs[n].dest = d
       ELSE r.err.dest = d

\* C11: a flush in which the open of a file destination failed reports that
\* failure in its result, whether the batch it drained is empty or not.
C11_OpenFailureReported ==
    \A f \in Flushers :
        pc[f] = "done" =>
            \A j \in FileIdx :
                (\E n \in 1..Len(ops[f]) :
                    /\ ops[f][n].op = "open"
                    /\ ops[f][n].dest = FileDest(j)
                    /\ ~ops[f][n].ok)
                  => ResultReports(result[f], FileDest(j))

\* The open of file j failed in an earlier flush than the one f runs.
OpenFailedBefore(f, j) ==
    /\ opened[j] > 0
    /\ ~OpenHandle(FileDest(j))
    /\ OpsOn(f, FileDest(j), {"open"}) = << >>

\* C12: a file destination whose open failed in an earlier flush is opened
\* or written again by a later flush whose batch holds records for it.
C12_FailedDestinationRetried ==
    \A f \in Flushers :
        (pc[f] = "done" /\ batch[f] # << >>) =>
            \A j \in FileIdx :
                ( /\ OpenFailedBefore(f, j)
                  /\ ~IsFilterOf(<< >>, batch[f], MinLevel(FileDest(j))) )
                    => OpsOn(f, FileDest(j), {"open", "write", "flush"}) # << >>

\* Producer p is at self.properties.lock(), inside the argument of push.
AcquiresOverlayLock(p) == ppc[p] = "locked"

\* C15: no thread holds the buffer lock while it acquires or holds the
\* overlay lock.
C15_OverlayLockIndependent ==
    \A p \in Producers : AcquiresOverlayLock(p) => buffer_lock # p

\* flush() has been entered by f and has not returned to its caller.
InFlight(f) ==
    pc[f] \in {"await_init", "init", "drain", "api", "await_files", "files",
               "done"}

\* C17: at most one execution of flush() is in flight, scheduler-invoked or
\* manual.
C17_SingleFlusher == Cardinality({f \in Flushers : InFlight(f)}) <= 1

\* Flush f is at a POST (a turn of the loop over the remote destinations).
AtPost(f) == pc[f] = "api"

\* Flush f is opening the configured files.
AtOpen(f) == pc[f] = "init"

\* Flush f is writing and flushing the batch to a file.
AtFileWrite(f) == pc[f] = "files"

\* C13 (as stated): a flush holds neither the buffer lock nor the
\* file-writers lock while it posts, opens a file or writes to a file.
C13_NoLockDuringIO ==
    \A f \in Flushers :
        (AtPost(f) \/ AtOpen(f) \/ AtFileWrite(f)) =>
            (buffer_lock # f /\ writers_lock # f)

\* C13 (amended): a flush never holds the buffer lock while it posts, opens
\* or writes a file, and holds no file-writers lock while it posts; it does
\* hold the file-writers lock while it opens the files and while it writes
\* and flushes them.
C13_LocksDuringIO ==
    \A f \in Flushers :
        /\ (AtPost(f) \/ AtOpen(f) \/ AtFileWrite(f)) => buffer_lock # f
        /\ AtPost(f) => writers_lock # f
        /\ (AtOpen(f) \/ AtFileWrite(f)) => writers_lock = f

\* A flush posts a batch after it opened the files, while the other flush
\* writes to a file under the file-writers lock.
C13_Witness ==
    \E f, g \in Flushers :
        /\ AtPost(f)
        /\ OpsOn(f, FileDest(1), {"open"}) # << >>
        /\ AtFileWrite(g)
        /\ writers_lock = g

\* C14: no flush holds the buffer lock in any state it can be observed in:
\* the lock is taken and released within the drain statement, so it is not
\* held while files are opened or written, while a request is made, or while
\* the file-writers lock is awaited or held.
C14_BufferLockOnlyForDrain == \A f \in Flushers : buffer_lock # f

\* A producer holds the buffer lock for its append while a flush that has
\* drained a batch writes it to a file under the file-writers lock.
C14_Witness ==
    \E f \in Flushers, p \in Producers :
        /\ AtFileWrite(f)
        /\ writers_lock = f
        /\ batch[f] # << >>
        /\ buffer_lock = p

\* C16: a POST counts as a failure of its destination exactly when the
\* response is not a 2xx status with a JSON object whose success is true.
C16_FailureIffNotAccepted ==
    \A f \in Flushers :
        \A n \in 1..Len(ops[f]) :
            ops[f][n].op = "post" => (ops[f][n].ok <=> ops[f][n].accepted)

\* The turns of the scheduler loop: a flush is started from the head of the
\* loop only, runs to its return, and the head of the loop is reached again
\* only through the tick that follows the flush (and the report of its error).
SchedulerCycle ==
    {"idle"} \X {"await_init", "drain"}
      \cup {"await_init"} \X {"init"}
      \cup {"init"} \X {"drain"}
      \cup {"drain"} \X {"api", "await_files", "done"}
      \cup {"api"} \X {"api", "await_files", "done"}
      \cup {"await_files"} \X {"files", "done"}
      \cup {"files"} \X {"files", "done"}
      \cup {"done"} \X {"log", "tick"}
      \cup {"log"} \X {"tick"}
      \cup {"tick"} \X {"idle"}

\* C18: without auto_flush no scheduler exists and the scheduler never
\* flushes (every flush is a manual one); with auto_flush the one scheduler
\* task alternates between a flush that runs to its return and the wait for
\* the next tick.
C18_SchedulerLifecycle ==
    /\ [](~config.auto_flush =>
            /\ pc["sched"] = "off"
            /\ ops["sched"] = << >>
            /\ batch["sched"] = << >>)
    /\ [](config.auto_flush => pc["sched"] # "off")
    /\ [][pc'["sched"] # pc["sched"] =>
            <<pc["sched"], pc'["sched"]>> \in SchedulerCycle]_vars

\* Without auto_flush a manual flush has delivered a batch while no
\* scheduler exists.
C18_Witness ==
    /\ ~config.auto_flush
    /\ pc["sched"] = "off"
    /\ pc["manual"] = "done"
    /\ ops["manual"] # << >>
    /\ batch["manual"] # << >>

\* Producer p completes its append in this step.
Appends(p) == ppc[p] = "locked" /\ ppc'[p] = "idle"

C19_WireRoundTrip == received # NoBatch => received = sent

\* The severities in their order, lowest first.
SeverityOrder == <<"Trace", "Debug", "Info", "Warn", "Error">>
Rank(l) == CHOOSE n \in 1..5 : SeverityOrder[n] = l

\* C21: the conversion from LogLevel keeps the level, level_int is strictly
\* increasing along Trace < Debug < Info < Warn < Error, and the comparison
\* level_int(a) >= level_int(b) is reflexive, antisymmetric, transitive and
\* total.
C21_SeverityOrder ==
    verdict.done =>
        /\ \A k \in 1..3 : verdict.level[k] = probe[k]
        /\ \A i, j \in 1..3 :
              /\ (Rank(probe[i]) < Rank(probe[j]))
                    <=> (verdict.int[i] < verdict.int[j])
              /\ verdict.ge[i][j] <=> (Rank(probe[i]) >= Rank(probe[j]))
              /\ verdict.ge[i][i]
              /\ (verdict.ge[i][j] /\ verdict.ge[j][i]) => probe[i] = probe[j]
              /\ verdict.ge[i][j] \/ verdict.ge[j][i]
        /\ (verdict.ge[1][2] /\ verdict.ge[2][3]) => verdict.ge[1][3]

\* Three different severities were converted and compared.
C21_Witness ==
    /\ verdict.done
    /\ probe = <<"Error", "Info", "Warn">>
    /\ verdict.ge[1][2] /\ ~verdict.ge[2][3]

\* Record i, of severity l, is in the buffer.
Buffered(i, l) ==
    \E k \in 1..Len(buffer) : buffer[k].id = i /\ buffer[k].level = l

\* Record i was drained by a flush.
WasDrained(i) == drainCount[i] > 0

\* Record i, of severity l, was handed to every destination it qualifies for.
AttemptedEverywhere(i, l) ==
    \A d \in Dests : AtLeast(l, MinLevel(d)) => handed[d][i] > 0

\* The drain alone: every appended record is eventually drained.
EventuallyDrained ==
    \A i \in Ids, l \in EventLevels : [](Buffered(i, l) => <>WasDrained(i))

\* What does hold: every appended record is eventually drained, and handed to
\* every qualifying destination other than a file that is not open.
DeliveredWhereOpen ==
    \A i \in Ids, l \in EventLevels :
        [](Buffered(i, l) =>
            <>(/\ WasDrained(i)
               /\ \A d \in Dests :
                    (AtLeast(l, MinLevel(d)) /\ (IsApi(d) \/ OpenHandle(d)))
                        => handed[d][i] > 0))

\* C22: with auto_flush, every appended record is eventually drained and
\* attempted on every destination whose minimum severity it meets.
C22_EventualDelivery ==
    \A i \in Ids, l \in EventLevels :
        [](Buffered(i, l) => <>(WasDrained(i) /\ AttemptedEverywhere(i, l)))

\* C23: the scheduler has never started more flushes than ticks have fired;
\* in particular it starts no flush before the first tick.
C23_FlushOnlyOnTick == ahead <= 0

\* C24: while the overlay has never been set (no with_properties and no
\* set_property so far), every record that exists was created with absent
\* properties, whether remove_property has been called or not.
C24_AbsentUntilSet ==
    ~everSet => \A r \in LiveRecords : ~r.properties.some

\* C25: the lines of every file are in the order in which their records were
\* appended to the buffer (records are numbered in that order).
C25_FileLinesInAppendOrder ==
    \A j \in FileIdx :
        \A a, b \in 1..Len(files[j]) : a < b => files[j][a] < files[j][b]

\* The ids of the batch of flush f are next to each other in file j.
Contiguous(f, j) ==
    \A a, b, c \in 1..Len(files[j]) :
        ( /\ a < b /\ b < c
          /\ Occurrences(batch[f], files[j][a]) > 0
          /\ Occurrences(batch[f], files[j][c]) > 0 )
            => Occurrences(batch[f], files[j][b]) > 0

\* C26: a line is written to a file only by a flush in its file phase while
\* no other flush is in its file phase, so the lines of one drained batch
\* are never interleaved with those of another within a file.
C26_FilePhaseExclusive ==
    /\ [][files' # files =>
            \E f \in Flushers :
                /\ AtFileWrite(f)
                /\ \A g \in Flushers \ {f} :
                      ~AtFileWrite(g) /\ pc'[g] = pc[g]]_vars
    /\ [](\A f \in Flushers, j \in FileIdx : Contiguous(f, j))

\* Two flushes overlap: one has written its batch to the first file and is
\* about to write the second, the other waits for the lock with its batch.
C26_Witness ==
    \E f, g \in Flushers :
        /\ f # g
        /\ AtFileWrite(f)
        /\ idx[f] = 2
        /\ OpsOn(f, FileDest(writers.v[1].cfg), {"write"}) # << >>
        /\ pc[g] = "await_files"
        /\ batch[g] # << >>

\* Flush f waits for the file-writers lock, or is about to take the buffer
\* lock for its drain.
AwaitsWritersLock(f) == pc[f] \in {"await_init", "await_files"}
AwaitsBufferLock(f) == pc[f] = "drain"

\* C27: whoever holds a lock is inside the critical section of that lock and
\* can take the step that releases it without another lock that is held; the
\* buffer lock is held by a producer inside its push only (where it takes the
\* overlay lock, which no thread holds across a step), a flush holds the
\* file-writers lock only while it opens or writes files, never while it
\* waits for a lock; so a thread that waits for a lock gets it.
C27_DeadlockFree ==
    /\ \A p \in Producers :
          buffer_lock = p => (ppc[p] = "locked" /\ ENABLED on_event_push(p))
    /\ \A f \in Flushers :
          /\ buffer_lock # f
          /\ writers_lock = f =>
                /\ AtOpen(f) \/ AtFileWrite(f)
                /\ ENABLED (InitWriters(f) \/ FileWriter(f))
          /\ (AwaitsWritersLock(f) \/ AwaitsBufferLock(f)) => writers_lock # f
          /\ (AwaitsWritersLock(f) /\ writers_lock = NoThread) =>
                ENABLED (AcquireInit(f) \/ AcquireFiles(f))
          /\ (AwaitsBufferLock(f) /\ buffer_lock = NoThread) => ENABLED Drain(f)
    /\ buffer_lock \in Producers \cup {NoThread}
    /\ writers_lock \in Flushers \cup {NoThread}

\* Every lock is contended: a producer holds the buffer lock while one flush
\* waits for it to drain, and the other flush holds the file-writers lock.
C27_Witness ==
    \E p \in Producers, f, g \in Flushers :
        /\ buffer_lock = p
        /\ properties.some
        /\ AwaitsBufferLock(f)
        /\ writers_lock = g

\* The events that reached on_event and were dropped at the gate.
Gated ==
    {i \in Ids : i < nextId /\ i \notin pushed
                   /\ \A p \in Producers : pev[p].id # i}

\* The records a flush put in a request body or wrote to a file.
DeliveredBy(o) ==
    CASE o.op = "post" -> {o.body[k] : k \in 1..Len(o.body)}
      [] o.op = "write" -> {o.rec}
      [] OTHER -> {}

Delivered ==
    UNION {UNION {DeliveredBy(ops[f][n]) : n \in 1..Len(ops[f])} :
             f \in Flushers}

\* C28: every record in the buffer, in a drained batch or delivered to a
\* destination has a severity of at least config.log_level, and an event
\* dropped at the gate is never drained nor handed to a destination, also
\* one whose own minimum severity is lower than config.log_level.
C28_GlobalGate ==
    /\ \A r \in LiveRecords \cup Delivered :
          Rank(r.level) >= Rank(config.log_level)
    /\ \A i \in Gated :
          /\ drainCount[i] = 0
          /\ \A d \in Dests : handed[d][i] = 0
          /\ \A r \in LiveRecords \cup Delivered : r.id # i

\* A Debug event was dropped at the gate Warn and a Warn event was posted to
\* a remote destination whose minimum severity is Debug.
C28_Witness ==
    /\ config.log_level = "Warn"
    /\ Gated # {}
    /\ \E d \in Dests :
          /\ IsApi(d)
          /\ MinLevel(d) = "Debug"
          /\ \E i \in Ids : handed[d][i] > 0
    /\ Delivered # {}

\* The operations flush f adds to its record in this step.
NewOps(f) == SubSeq(ops'[f], Len(ops[f]) + 1, Len(ops'[f]))

Failed(os) == SelectSeq(os, LAMBDA o : ~o.ok)

\* C29: the turn of a flush on one file destination attempts a write for
\* every record of the filtered batch, whatever writes failed before, puts
\* the lines whose write succeeded in the file, flushes the writer once, and
\* adds one entry to errs for every write that failed and one for a failed
\* flush.
C29_WriteFailureContinues ==
    [][\A f \in Flushers :
          (AtFileWrite(f) /\ ops'[f] # ops[f]) =>
            LET new == NewOps(f)
                d == new[1].dest
                writes == SelectSeq(new, LAMBDA o : o.op = "write")
                okWrites == SelectSeq(writes, LAMBDA o : o.ok)
                added == SubSeq(errs'[f], Len(errs[f]) + 1, Len(errs'[f]))
            IN  /\ \A n \in 1..Len(new) : new[n].dest = d
                /\ IsFilterOf([k \in 1..Len(writes) |-> writes[k].rec],
                              batch[f], MinLevel(d))
                /\ Len(new) = Len(writes) + 1
                /\ new[Len(new)].op = "flush"
                /\ files'[d[2]] =
                      files[d[2]] \o [k \in 1..Len(okWrites) |-> okWrites[k].rec.id]
                /\ IsPrefix(errs[f], errs'[f])
                /\ Len(added) = Len(Failed(new))
                /\ \A n \in 1..Len(added) : added[n] = IoError(d)]_vars

\* The first write of a flush to a file failed, the second succeeded and the
\* flush of the writer failed: the file has the second line and the flush
\* returns two errors of that one destination.
C29_Witness ==
    \E f \in Flushers, j \in FileIdx :
        LET os == OpsOn(f, FileDest(j), {"write", "flush"})
        IN  /\ pc[f] = "done"
            /\ Len(os) = 3
            /\ ~os[1].ok /\ os[2].ok /\ ~os[3].ok
            /\ files[j] = <<os[2].rec.id>>
            /\ result[f] = Err([kind |-> "Multi",
                                errs |-> <<IoError(FileDest(j)),
                                           IoError(FileDest(j))>>])

\* C30: every POST goes to the api_url of its destination followed by /logs
\* and carries the user_agent configured for that destination.
C30_PostTarget ==
    \A f \in Flushers :
        \A n \in 1..Len(ops[f]) :
            LET o == ops[f][n]
            IN  o.op = "post" =>
                    /\ o.url = <<config.api_urls[o.dest[2]], "/logs">>
                    /\ o.user_agent = config.api_user_agents[o.dest[2]]

====
